---- MODULE Spec2Model ----
(***************************************************************************)
(* Model of st_test_lg_1.py: a Streamlit page that signs a user in with    *)
(* Google (OAuth2 authorization code grant) and keeps the outcome in       *)
(* st.session_state.                                                       *)
(*                                                                         *)
(* One run of the script (main) is one action.  The identity provider is   *)
(* the environment: the outcome of flow.fetch_token and of the userinfo    *)
(* GET is drawn from the outcomes those calls can have.  Every browser     *)
(* session has its own st.session_state and its own URL query string.      *)
(*                                                                         *)
(* A second specification, SpecConc, runs main line by line for two        *)
(* requests at once, to see what the script does when nothing serialises   *)
(* the runs of one session.                                                *)
(***************************************************************************)
EXTENDS Integers, Sequences, FiniteSets, TLC

\* ------------------------------------------------------------------ bounds
MaxCode == 2        \* authorization codes the provider hands out
NumSessions == 2    \* browser sessions served by the process

Sessions == 1..NumSessions

\* ------------------------------------------------------------ Python values
\* None where an object (dict, Credentials) is expected, and where a str is.
None == [None |-> TRUE]
NoStr == "<None>"
\* a key st.session_state does not hold
Absent == [Absent |-> TRUE]
EmptyDict == [k \in {} |-> ""]

\* bool(x) of a str or None
TruthyStr(x) == x # NoStr /\ x # ""
\* bool(x) of a dict or None
TruthyObj(x) == x # None /\ DOMAIN x # {}

\* ---------------------------------------------------------------- provider
CodeStr(i) == "code" \o ToString(i)
Codes == {CodeStr(i) : i \in 1..MaxCode}
\* what ?code= can hold: no parameter, an empty one, a code
QueryCodes == {NoStr, ""} \cup Codes

\* Every successful exchange issues a fresh access token; it is named after
\* the code it was issued for (a code is redeemed at most once).
TokenOf(code) == "tok-" \o code
RefreshOf(code) == "ref-" \o code
\* The Google account that consented when the code was issued.
UserOf(token) == "user-of-" \o token

TOKEN_URI == "https://oauth2.googleapis.com/token"
SCOPES == <<"openid", "userinfo.email", "userinfo.profile">>
\* values the environment variables can have
EnvValues == {NoStr, "", "set"}

VARIABLES
    CLIENT_ID,          \* os.getenv("GOOGLE_CLIENT_ID")
    CLIENT_SECRET,      \* os.getenv("GOOGLE_CLIENT_SECRET")
    user_info,          \* st.session_state.user_info, per session
    is_authenticated,   \* st.session_state.is_authenticated, per session
    credentials,        \* st.session_state.credentials, per session
    query_code,         \* the code parameter of the session's URL
    rerun,              \* st.experimental_rerun() was called: the script runs again
    redeemed,           \* provider: codes already exchanged for a token
    last,               \* what the last step did and showed
    run                 \* SpecConc: the position and the locals of each run of main

vars == <<CLIENT_ID, CLIENT_SECRET, user_info, is_authenticated, credentials,
          query_code, rerun, redeemed, last, run>>

config == <<CLIENT_ID, CLIENT_SECRET>>
session_state == <<user_info, is_authenticated, credentials>>

\* ------------------------------------------------------------ the provider
\* exchange_code_for_token(code): flow.fetch_token raises (network error,
\* invalid_grant, a code that was redeemed before), or flow.credentials is
\* returned.  The authorization URL asks for access_type=offline with
\* prompt=consent (lines 48-52), so the provider grants a refresh token.
NewCredentials(code) ==
    [token |-> TokenOf(code), refresh_token |-> RefreshOf(code),
     token_uri |-> TOKEN_URI, client_id |-> CLIENT_ID,
     client_secret |-> CLIENT_SECRET, scopes |-> SCOPES]

\* the exchange when the credentials of a code are kept and handed out again
exchange_code_for_token_cached(code) ==
    {[raised |-> TRUE, credentials |-> None],
     [raised |-> FALSE, credentials |-> NewCredentials(code)]}

exchange_code_for_token(code) ==
    {[raised |-> TRUE, credentials |-> None]} \cup
    IF code \in redeemed THEN {}
    ELSE {[raised |-> FALSE, credentials |-> NewCredentials(code)]}

\* the provider when it does not take note of the codes it has exchanged
redeem_forgotten(code) == UNCHANGED redeemed

\* line 58: flow.fetch_token(code=code) returned; the provider has exchanged
\* the code and will not exchange it again
redeem(code) == redeemed' = redeemed \cup {code}

\* What requests.get gives for the userinfo endpoint: no connection (it
\* raises), or a response with a status code and a body that is JSON or not.
\* A JSON body of a 200 is the account's profile with or without its optional
\* fields, an empty object, or null; a 401 carries a JSON error object.
Response(kind, status_code, parseable, json) ==
    [kind |-> kind, status_code |-> status_code, parseable |-> parseable,
     json |-> json]

NotCalled == Response("not called", 0, FALSE, None)
NoConnection == Response("no connection", 0, FALSE, None)

Profiles(token) ==
    {[id |-> UserOf(token), name |-> "Ada", email |-> "a@x.com"],
     [id |-> UserOf(token)]}

Responses(token) ==
    {Response("http", 200, TRUE, j) : j \in Profiles(token) \cup {EmptyDict, None}}
    \cup {Response("http", 200, FALSE, None),
          Response("http", 401, TRUE, [error |-> "invalid_token"]),
          Response("http", 500, FALSE, None),
          NoConnection}

\* get_user_info without the test of the status code
get_user_info_any_status(response) ==
    IF response.kind = "http" /\ response.parseable
    THEN [raised |-> FALSE, value |-> response.json]
    ELSE [raised |-> TRUE, value |-> None]

\* get_user_info(credentials), given what requests.get did: response.json()
\* on a 200 (it raises on a body that is not JSON), None on another status.
get_user_info(response) ==
    IF response.kind # "http"
    THEN [raised |-> TRUE, value |-> None]
    ELSE IF response.status_code = 200
         THEN IF response.parseable
              THEN [raised |-> FALSE, value |-> response.json]
              ELSE [raised |-> TRUE, value |-> None]
         ELSE [raised |-> FALSE, value |-> None]

\* --------------------------------------------------------------- the steps
\* an outbound call made by a step
Call(fn, arg) == [fn |-> fn, arg |-> arg]

\* The record of a step: the operation, its session and whether it was
\* authenticated when the step began, the code main read from the URL, the
\* outbound calls in order, how the exchange ended, what the userinfo
\* endpoint answered, the branch taken and the st.error text.
Step(op, s, was, code, calls, exchange, response, outcome, error) ==
    [op |-> op, sess |-> s, was_authenticated |-> was, code |-> code,
     calls |-> calls, exchange |-> exchange, response |-> response,
     outcome |-> outcome, error |-> error]

NoStep(op) == Step(op, 0, FALSE, NoStr, <<>>, "not called", NotCalled, "", "")

\* the two requests handled at once
Runs == {"first", "second"}

\* The frame of a run of main: where it is in the function, the session it
\* serves, its locals code, credentials and user_info, and how it ended.
Frame(pc, s, code, creds, info, outcome) ==
    [pc |-> pc, sess |-> s, code |-> code, credentials |-> creds,
     user_info |-> info, outcome |-> outcome]

NotStarted == Frame("idle", 0, NoStr, None, None, "")

Init ==
    /\ CLIENT_ID \in EnvValues
    /\ CLIENT_SECRET \in EnvValues
    /\ user_info = [s \in Sessions |-> None]
    /\ is_authenticated = [s \in Sessions |-> FALSE]
    /\ credentials = [s \in Sessions |-> Absent]
    /\ query_code = [s \in Sessions |-> NoStr]
    /\ rerun = [s \in Sessions |-> FALSE]
    /\ redeemed = {}
    /\ last = NoStep("start")
    /\ run = [r \in Runs |-> NotStarted]

\* ------------------------------------------------------------ session state
\* the dict without the refresh token
StoredCredentials_no_refresh(creds) ==
    [token |-> creds.token, refresh_token |-> NoStr,
     token_uri |-> creds.token_uri, client_id |-> creds.client_id,
     client_secret |-> creds.client_secret, scopes |-> creds.scopes]

\* lines 136-143: the dict main keeps of the Credentials object
StoredCredentials(creds) ==
    [token |-> creds.token, refresh_token |-> creds.refresh_token,
     token_uri |-> creds.token_uri, client_id |-> creds.client_id,
     client_secret |-> creds.client_secret, scopes |-> creds.scopes]

\* the stores when st.session_state is one object shared by every session
store_session_global(s, info, creds) ==
    /\ user_info' = [t \in Sessions |-> info]
    /\ is_authenticated' = [t \in Sessions |-> TRUE]
    /\ credentials' = [t \in Sessions |-> StoredCredentials(creds)]

\* the stores when the profile is kept in one place for every session and
\* the credentials per session
store_session_shared_profile(s, info, creds) ==
    /\ user_info' = [t \in Sessions |-> info]
    /\ is_authenticated' = [is_authenticated EXCEPT ![s] = TRUE]
    /\ credentials' = [credentials EXCEPT ![s] = StoredCredentials(creds)]

\* the stores without the one of line 136
store_session_no_credentials(s, info, creds) ==
    /\ user_info' = [user_info EXCEPT ![s] = info]
    /\ is_authenticated' = [is_authenticated EXCEPT ![s] = TRUE]
    /\ UNCHANGED credentials

\* lines 134-143
store_session(s, info, creds) ==
    /\ user_info' = [user_info EXCEPT ![s] = info]
    /\ is_authenticated' = [is_authenticated EXCEPT ![s] = TRUE]
    /\ credentials' = [credentials EXCEPT ![s] = StoredCredentials(creds)]

\* the reset without the store of line 79
reset_session_keeps_credentials(s) ==
    /\ user_info' = [user_info EXCEPT ![s] = None]
    /\ is_authenticated' = [is_authenticated EXCEPT ![s] = FALSE]
    /\ UNCHANGED credentials

\* lines 77-79
reset_session(s) ==
    /\ user_info' = [user_info EXCEPT ![s] = None]
    /\ is_authenticated' = [is_authenticated EXCEPT ![s] = FALSE]
    /\ credentials' = [credentials EXCEPT ![s] = None]

\* the URL left as it is
clear_query_params_skipped(s) == UNCHANGED query_code

\* line 146: st.experimental_set_query_params() with no parameters
clear_query_params(s) == query_code' = [query_code EXCEPT ![s] = NoStr]

\* line 147: st.experimental_rerun(); any other end of the script does not
\* ask for another run
request_rerun(s) == rerun' = [rerun EXCEPT ![s] = TRUE]
script_ends(s) == rerun' = [rerun EXCEPT ![s] = FALSE]

\* ------------------------------------------------------------------- main
\* the test of the client id alone
ConfigMissing_id_only == ~TruthyStr(CLIENT_ID)

\* line 107
ConfigMissing == ~TruthyStr(CLIENT_ID) \/ ~TruthyStr(CLIENT_SECRET)

\* the test when a code in the URL is looked at first
AlreadyAuthenticated_unless_code(s) ==
    /\ is_authenticated[s]
    /\ TruthyObj(user_info[s])
    /\ ~TruthyStr(query_code[s])

\* line 119
AlreadyAuthenticated(s) == is_authenticated[s] /\ TruthyObj(user_info[s])

\* the stores made without the test of line 133
ProfileAccepted_unchecked(info) == TRUE

\* the test when a profile without a name is turned down
ProfileAccepted_requires_name(info) ==
    TruthyObj(info) /\ "name" \in DOMAIN info

\* line 133: if user_info
ProfileAccepted(info) == TruthyObj(info)

\* lines 107-112: st.error, st.info, return
ConfigurationError(s) ==
    /\ last' = Step("main", s, is_authenticated[s], NoStr, <<>>, "not called",
                    NotCalled, "ConfigurationError",
                    "Google OAuth credentials are not set.")
    /\ script_ends(s)
    /\ UNCHANGED <<session_state, query_code, redeemed>>

\* the profile page when it also removes the code from the URL
ShowProfile_clears_code(s, code) ==
    /\ last' = Step("main", s, is_authenticated[s], code, <<>>, "not called",
                    NotCalled, "ShowProfile", "")
    /\ script_ends(s)
    /\ clear_query_params(s)
    /\ UNCHANGED <<session_state, redeemed>>

\* lines 119-124: display_user_info() and the protected content
ShowProfile(s, code) ==
    /\ last' = Step("main", s, is_authenticated[s], code, <<>>, "not called",
                    NotCalled, "ShowProfile", "")
    /\ script_ends(s)
    /\ UNCHANGED <<session_state, query_code, redeemed>>

\* the handler when is_authenticated was set before the try
on_exception_flag_set(s) ==
    /\ script_ends(s)
    /\ is_authenticated' = [is_authenticated EXCEPT ![s] = TRUE]
    /\ UNCHANGED <<user_info, credentials, query_code>>

\* the handler when it asks for another run of the script
on_exception_reruns(s) ==
    /\ request_rerun(s)
    /\ UNCHANGED <<session_state, query_code>>

\* lines 150-151: except Exception, st.error
on_exception(s) ==
    /\ script_ends(s)
    /\ UNCHANGED <<session_state, query_code>>

\* lines 148-149: st.error("Failed to get user information.")
on_no_user_info(s) ==
    /\ script_ends(s)
    /\ UNCHANGED <<session_state, query_code>>

\* lines 134-147: the stores, the cleared URL and the rerun
on_user_info(s, info, creds) ==
    /\ store_session(s, info, creds)
    /\ clear_query_params(s)
    /\ request_rerun(s)

\* the exchange called a second time when the first call raised
ExchangeCalls_retry(code) ==
    <<Call("fetch_token", code), Call("fetch_token", code)>>

\* line 130: exchange_code_for_token is called once, inside the try
ExchangeCalls(code) == <<Call("fetch_token", code)>>

\* line 131: get_user_info is called once, with the credentials returned by
\* the exchange
FetchCalls(calls, token) == Append(calls, Call("userinfo", token))

\* lines 127-151
Exchanging(s, code) ==
    \E ex \in exchange_code_for_token(code) :
        LET was == is_authenticated[s]
            c1 == ExchangeCalls(code)
        IN
        IF ex.raised
        THEN /\ last' = Step("main", s, was, code, c1, "raised", NotCalled,
                             "Error", "Authentication error")
             /\ on_exception(s)
             /\ UNCHANGED redeemed
        ELSE \E response \in Responses(ex.credentials.token) :
            LET c2 == FetchCalls(c1, ex.credentials.token)
                ui == get_user_info(response)
            IN
            /\ redeem(code)
            /\ IF ui.raised
               THEN /\ last' = Step("main", s, was, code, c2, "returned", response,
                                    "Error", "Authentication error")
                    /\ on_exception(s)
               ELSE IF ProfileAccepted(ui.value)
               THEN /\ last' = Step("main", s, was, code, c2, "returned", response,
                                    "Authenticated", "")
                    /\ on_user_info(s, ui.value, ex.credentials)
               ELSE /\ last' = Step("main", s, was, code, c2, "returned", response,
                                    "Error", "Failed to get user information.")
                    /\ on_no_user_info(s)

\* the sign-in link when showing it also resets the session
ShowLogin_resets(s, code) ==
    /\ last' = Step("main", s, is_authenticated[s], code,
                    <<Call("authorization_url", "")>>, "not called", NotCalled,
                    "ShowLogin", "")
    /\ script_ends(s)
    /\ reset_session(s)
    /\ UNCHANGED <<query_code, redeemed>>

\* lines 154-186: the sign-in link
ShowLogin(s, code) ==
    /\ last' = Step("main", s, is_authenticated[s], code,
                    <<Call("authorization_url", "")>>, "not called", NotCalled,
                    "ShowLogin", "")
    /\ script_ends(s)
    /\ UNCHANGED <<session_state, query_code, redeemed>>

\* One run of the script for session s.
main(s) ==
    /\ IF ConfigMissing
       THEN ConfigurationError(s)
       ELSE LET code == query_code[s] IN
            IF AlreadyAuthenticated(s) THEN ShowProfile(s, code)
            ELSE IF TruthyStr(code) THEN Exchanging(s, code)
            ELSE ShowLogin(s, code)
    /\ UNCHANGED <<config, run>>

\* The Sign Out button's callback.  The function takes no argument and reads
\* nothing, so it is taken in any state of the session, signed in or not; the
\* button cannot be clicked while the script is being rerun.
sign_out(s) ==
    /\ ~rerun[s]
    /\ reset_session(s)
    /\ last' = Step("sign_out", s, is_authenticated[s], NoStr, <<>>, "not called",
                    NotCalled, "SignedOut", "")
    /\ UNCHANGED <<config, query_code, rerun, redeemed, run>>

\* The session's browser arrives with a query string: the provider's redirect
\* carrying a code, or a URL without one.  The query string stays as it is
\* from run to run until main clears it (line 146) or the browser arrives
\* with another one.
Request(s, code) ==
    /\ ~rerun[s]
    /\ query_code[s] # code
    /\ query_code' = [query_code EXCEPT ![s] = code]
    /\ last' = NoStep("request")
    /\ UNCHANGED <<config, session_state, rerun, redeemed, run>>

Next ==
    \E s \in Sessions :
        \/ main(s)
        \/ sign_out(s)
        \/ \E code \in QueryCodes : Request(s, code)

Spec == Init /\ [][Next]_vars

\* ------------------------------------------------- main, one line at a time
\* Two requests are handled at once, each by its own run of main, with no
\* lock between them: a step is one line (or one call) of one run, and the
\* steps of the runs interleave freely.  The URLs the sessions arrived with
\* are drawn at the start; both runs of one session read the same code.
InitConc ==
    /\ CLIENT_ID \in EnvValues
    /\ CLIENT_SECRET \in EnvValues
    /\ user_info = [s \in Sessions |-> None]
    /\ is_authenticated = [s \in Sessions |-> FALSE]
    /\ credentials = [s \in Sessions |-> Absent]
    /\ query_code \in [Sessions -> QueryCodes]
    /\ rerun = [s \in Sessions |-> FALSE]
    /\ redeemed = {}
    /\ last = NoStep("start")
    /\ run = [r \in Runs |-> NotStarted]

Goto(r, frame) == run' = [run EXCEPT ![r] = frame]

Ended(r, outcome) ==
    Goto(r, [run[r] EXCEPT !.pc = "done", !.outcome = outcome])

\* lines 107-127: the run starts for session s, reads the code and takes its
\* branch; the branches that only render end the run
begin_main(r, s) ==
    /\ run[r].pc = "idle"
    /\ LET code == query_code[s]
           frame == Frame("done", s, code, None, None, "")
       IN
       IF ConfigMissing
       THEN Goto(r, [frame EXCEPT !.code = NoStr, !.outcome = "ConfigurationError"])
       ELSE IF AlreadyAuthenticated(s)
       THEN Goto(r, [frame EXCEPT !.outcome = "ShowProfile"])
       ELSE IF TruthyStr(code)
       THEN Goto(r, [frame EXCEPT !.pc = "exchange"])
       ELSE Goto(r, [frame EXCEPT !.outcome = "ShowLogin"])
    /\ UNCHANGED <<config, session_state, query_code, rerun, redeemed, last>>

\* line 130: credentials = exchange_code_for_token(code)
call_exchange(r) ==
    /\ run[r].pc = "exchange"
    /\ \E ex \in exchange_code_for_token(run[r].code) :
          IF ex.raised
          THEN /\ Ended(r, "Error")
               /\ UNCHANGED redeemed
          ELSE /\ Goto(r, [run[r] EXCEPT !.pc = "fetch",
                                          !.credentials = ex.credentials])
               /\ redeem(run[r].code)
    /\ UNCHANGED <<config, session_state, query_code, rerun, last>>

\* lines 131-133 and 148-151: user_info = get_user_info(credentials) and the
\* test of it
call_get_user_info(r) ==
    /\ run[r].pc = "fetch"
    /\ \E response \in Responses(run[r].credentials.token) :
          LET ui == get_user_info(response) IN
          IF ~ui.raised /\ ProfileAccepted(ui.value)
          THEN Goto(r, [run[r] EXCEPT !.pc = "store user_info",
                                       !.user_info = ui.value])
          ELSE Ended(r, "Error")
    /\ UNCHANGED <<config, session_state, query_code, rerun, redeemed, last>>

\* line 134: st.session_state.user_info = user_info
store_user_info(r) ==
    /\ run[r].pc = "store user_info"
    /\ user_info' = [user_info EXCEPT ![run[r].sess] = run[r].user_info]
    /\ Goto(r, [run[r] EXCEPT !.pc = "store is_authenticated"])
    /\ UNCHANGED <<config, is_authenticated, credentials, query_code, rerun,
                   redeemed, last>>

\* line 135: st.session_state.is_authenticated = True
store_is_authenticated(r) ==
    /\ run[r].pc = "store is_authenticated"
    /\ is_authenticated' = [is_authenticated EXCEPT ![run[r].sess] = TRUE]
    /\ Goto(r, [run[r] EXCEPT !.pc = "store credentials"])
    /\ UNCHANGED <<config, user_info, credentials, query_code, rerun,
                   redeemed, last>>

\* lines 136-143: st.session_state.credentials = {...}
store_credentials(r) ==
    /\ run[r].pc = "store credentials"
    /\ credentials' = [credentials EXCEPT
                          ![run[r].sess] = StoredCredentials(run[r].credentials)]
    /\ Goto(r, [run[r] EXCEPT !.pc = "clear"])
    /\ UNCHANGED <<config, user_info, is_authenticated, query_code, rerun,
                   redeemed, last>>

\* lines 146-147: the URL is cleared and the rerun asked for
clear_and_rerun(r) ==
    /\ run[r].pc = "clear"
    /\ clear_query_params(run[r].sess)
    /\ request_rerun(run[r].sess)
    /\ Ended(r, "Authenticated")
    /\ UNCHANGED <<config, session_state, redeemed, last>>

NextConc ==
    \E r \in Runs :
        \/ \E s \in Sessions : begin_main(r, s)
        \/ call_exchange(r)
        \/ call_get_user_info(r)
        \/ store_user_info(r)
        \/ store_is_authenticated(r)
        \/ store_credentials(r)
        \/ clear_and_rerun(r)

SpecConc == InitConc /\ [][NextConc]_vars

\* ------------------------------------------------------------- properties
CalledFns(step) == {step.calls[i].fn : i \in DOMAIN step.calls}

\* the userinfo endpoint answered 200 with a JSON object
FetchReturnedObject(response) ==
    /\ response.kind = "http"
    /\ response.status_code = 200
    /\ response.parseable
    /\ response.json # None

\* the userinfo endpoint answered 200 with a profile (a JSON object with an id)
FetchReturnedProfile(response) ==
    /\ FetchReturnedObject(response)
    /\ "id" \in DOMAIN response.json

\* the userinfo endpoint answered with another status, or 200 and no JSON
FetchRejected(response) ==
    /\ response.kind = "http"
    /\ (response.status_code # 200 \/ ~response.parseable)

NoCredentials(s) == credentials[s] \in {Absent, None}

\* C1: in every reachable state, a session whose is_authenticated is true
\* holds a non-empty profile in user_info and a non-empty credentials dict
\* with an access token.
C1_AuthenticatedHasProfileAndCredentials ==
    \A s \in Sessions :
        is_authenticated[s] =>
            /\ user_info[s] # None
            /\ DOMAIN user_info[s] # {}
            /\ ~NoCredentials(s)
            /\ DOMAIN credentials[s] # {}
            /\ TruthyStr(credentials[s].token)

\* C1 witness: an authenticated session whose profile a later run displayed
C1_Witness ==
    /\ last.op = "main"
    /\ last.outcome = "ShowProfile"
    /\ is_authenticated[last.sess]

\* C2: is_authenticated of a session becomes true only in a run of main for
\* that session in which the exchange returned and the userinfo endpoint
\* answered 200 with a JSON object, and becomes false only in sign_out for
\* that session; no other step changes it.
C2_TagChangesOnlyBySuccessOrSignOut ==
    [][\A s \in Sessions :
        /\ (~is_authenticated[s] /\ is_authenticated'[s]) =>
              /\ last'.op = "main"
              /\ last'.sess = s
              /\ last'.exchange = "returned"
              /\ FetchReturnedObject(last'.response)
        /\ (is_authenticated[s] /\ ~is_authenticated'[s]) =>
              /\ last'.op = "sign_out"
              /\ last'.sess = s]_vars

\* C2 witness: a session that was authenticated has just been signed out
C2_Witness ==
    /\ last.op = "sign_out"
    /\ last.was_authenticated
    /\ ~is_authenticated[last.sess]

\* C3: a run of main in which the exchange raised makes no userinfo call and
\* leaves the session unauthenticated, with user_info, is_authenticated and
\* credentials as they were.
C3_FailedExchangeSkipsFetchAndKeepsSession ==
    [][(last'.op = "main" /\ last'.exchange = "raised") =>
          /\ "userinfo" \notin CalledFns(last')
          /\ last'.response = NotCalled
          /\ ~is_authenticated'[last'.sess]
          /\ session_state' = session_state]_vars

\* C3 witness: the exchange of a run has just raised
C3_Witness ==
    /\ last.op = "main"
    /\ last.exchange = "raised"
    /\ last.calls = <<Call("fetch_token", last.code)>>

\* C4: a run of main on an unauthenticated session in which the exchange
\* returned and the userinfo endpoint answered 200 with a profile makes the
\* session authenticated in that step, stores the fetched profile as it is,
\* and stores the access token and the refresh token the exchange returned.
C4_SuccessStoresFetchedProfileAndTokens ==
    [][(/\ last'.op = "main"
        /\ ~is_authenticated[last'.sess]
        /\ last'.exchange = "returned"
        /\ FetchReturnedProfile(last'.response)) =>
          LET s == last'.sess IN
          /\ last'.outcome = "Authenticated"
          /\ is_authenticated'[s]
          /\ user_info'[s] = last'.response.json
          /\ credentials'[s].token = TokenOf(last'.code)
          /\ credentials'[s].refresh_token = RefreshOf(last'.code)
          /\ last'.calls = <<Call("fetch_token", last'.code),
                             Call("userinfo", TokenOf(last'.code))>>]_vars

\* C4 witness: the exchange of code1 and the fetch of its profile have just
\* authenticated a session
C4_Witness ==
    /\ last.op = "main"
    /\ last.outcome = "Authenticated"
    /\ ~last.was_authenticated
    /\ user_info[last.sess] =
          [id |-> UserOf(TokenOf(CodeStr(1))), name |-> "Ada", email |-> "a@x.com"]
    /\ credentials[last.sess].token = TokenOf(CodeStr(1))
    /\ credentials[last.sess].refresh_token = RefreshOf(CodeStr(1))

\* C5: a run of main in which the exchange returned and the userinfo endpoint
\* answered with a status other than 200, or with 200 and a body that is not
\* JSON, ends with an error message and leaves the session unauthenticated,
\* with no profile and no credentials, and the session state as it was.
C5_FailedFetchKeepsSessionUnauthenticated ==
    [][(/\ last'.op = "main"
        /\ last'.exchange = "returned"
        /\ FetchRejected(last'.response)) =>
          LET s == last'.sess IN
          /\ last'.outcome = "Error"
          /\ last'.error # ""
          /\ ~is_authenticated'[s]
          /\ user_info'[s] = None
          /\ credentials'[s] \in {Absent, None}
          /\ session_state' = session_state]_vars

\* C5 witness: the fetch of a run has just been rejected after the exchange
\* returned
C5_Witness ==
    /\ last.op = "main"
    /\ last.exchange = "returned"
    /\ FetchRejected(last.response)
    /\ last.outcome = "Error"

SessionOf(s) == <<user_info[s], is_authenticated[s], credentials[s]>>

\* C6: after a run of main that ended in an error (the exchange or the fetch
\* failed), the code counts as consumed: the next run of main in the same
\* session does not call the token exchange with that code again.
C6_FailedCodeNotExchangedAgain ==
    [][(/\ last.op = "main"
        /\ last.outcome = "Error"
        /\ last'.op = "main"
        /\ last'.sess = last.sess) =>
          \A i \in DOMAIN last'.calls :
              last'.calls[i] # Call("fetch_token", last.code)]_vars

\* C7: a run of main that authenticates the session clears the code of the
\* URL and asks for a rerun; the run that follows in that session reads no
\* code, shows the profile and does not call the token exchange.
C7_SuccessClearsCodeBeforeRerun ==
    [][/\ (last'.op = "main" /\ last'.outcome = "Authenticated") =>
              /\ query_code'[last'.sess] = NoStr
              /\ rerun'[last'.sess]
       /\ \A s \in Sessions : rerun[s] =>
              /\ query_code[s] = NoStr
              /\ query_code'[s] = NoStr
              /\ SessionOf(s)' = SessionOf(s)
              /\ last'.sess = s =>
                    /\ last'.op = "main"
                    /\ last'.code = NoStr
                    /\ last'.outcome = "ShowProfile"
                    /\ "fetch_token" \notin CalledFns(last')]_vars

\* C7 witness: the rerun after a successful exchange has shown the profile
C7_Witness ==
    /\ last.op = "main"
    /\ last.outcome = "ShowProfile"
    /\ last.code = NoStr
    /\ query_code[last.sess] = NoStr
    /\ redeemed # {}
    /\ credentials[last.sess] # None

\* C8: a session's profile and credentials are written, and the session is
\* authenticated, only in a run of main whose own token exchange of a code not
\* redeemed before returned; a run of main on a code the provider has redeemed
\* (the exchange raises on it) does not authenticate and leaves profile and
\* credentials as they were.
C8_ReplayNeverCompletes ==
    [][\A s \in Sessions :
        /\ (is_authenticated'[s] /\ SessionOf(s)' # SessionOf(s)) =>
              /\ last'.op = "main"
              /\ last'.sess = s
              /\ query_code[s] \notin redeemed
              /\ last'.exchange = "returned"
              /\ Len(last'.calls) >= 1
              /\ last'.calls[1] = Call("fetch_token", query_code[s])
        /\ (last'.op = "main" /\ last'.sess = s /\ query_code[s] \in redeemed) =>
              /\ last'.outcome # "Authenticated"
              /\ SessionOf(s)' = SessionOf(s)]_vars

\* C8 witness: a code that authenticated a session still signed in has been
\* presented again and its exchange raised
C8_Witness ==
    /\ last.op = "main"
    /\ last.exchange = "raised"
    /\ last.code \in redeemed
    /\ \E t \in Sessions :
          /\ is_authenticated[t]
          /\ credentials[t].token = TokenOf(last.code)

ClientUnset ==
    \/ CLIENT_ID \in {NoStr, ""}
    \/ CLIENT_SECRET \in {NoStr, ""}

\* C9: with the client id or the client secret missing or empty, every run of
\* main shows the configuration error, makes no outbound call (no
\* authorization URL, no token exchange, no profile fetch) and leaves the
\* session state, the URL and the provider as they were.
C9_MissingConfigStopsBeforeAnyCall ==
    [][(ClientUnset /\ last'.op = "main") =>
          /\ last'.outcome = "ConfigurationError"
          /\ last'.error # ""
          /\ last'.calls = <<>>
          /\ session_state' = session_state
          /\ query_code' = query_code
          /\ redeemed' = redeemed]_vars

\* C9 witness: with an empty client secret, a run of main for a URL that
\* carries a code has shown the configuration error
C9_Witness ==
    /\ TruthyStr(CLIENT_ID)
    /\ CLIENT_SECRET = ""
    /\ last.op = "main"
    /\ last.outcome = "ConfigurationError"
    /\ query_code[last.sess] \in Codes

\* C10: sign_out leaves the session unauthenticated with user_info and
\* credentials None, whatever they were; it makes no outbound call and shows
\* no error; on a session it has already reset it changes nothing, and on a
\* session that never signed in it leaves the session unauthenticated.
C10_SignOutResetsAndIsIdempotent ==
    [][last'.op = "sign_out" =>
          LET s == last'.sess IN
          /\ ~is_authenticated'[s]
          /\ user_info'[s] = None
          /\ credentials'[s] = None
          /\ last'.calls = <<>>
          /\ last'.error = ""
          /\ (SessionOf(s) = <<None, FALSE, None>>) =>
                session_state' = session_state
          /\ \A t \in Sessions \ {s} : SessionOf(t)' = SessionOf(t)]_vars

\* C10 witness: sign_out has run on a session that was not authenticated
C10_Witness ==
    /\ last.op = "sign_out"
    /\ ~last.was_authenticated
    /\ SessionOf(last.sess) = <<None, FALSE, None>>

\* C11: with the client id and secret set, the branch a run of main takes is
\* decided by is_authenticated and the code of the URL alone: an
\* authenticated session is shown its profile, code or no code; an
\* unauthenticated session without a code (none, or an empty one) is shown
\* the sign-in link; an unauthenticated session with a code starts the
\* exchange of that code.  The three cases exclude each other.
C11_BranchDecidedBySessionAndCode ==
    [][(last'.op = "main" /\ ~ClientUnset) =>
          LET s == last'.sess
              code == query_code[s]
          IN
          /\ last'.code = code
          /\ is_authenticated[s] =>
                /\ last'.outcome = "ShowProfile"
                /\ last'.calls = <<>>
          /\ (~is_authenticated[s] /\ code \in {NoStr, ""}) =>
                /\ last'.outcome = "ShowLogin"
                /\ last'.calls = <<Call("authorization_url", "")>>
          /\ (~is_authenticated[s] /\ code \notin {NoStr, ""}) =>
                /\ last'.outcome \in {"Authenticated", "Error"}
                /\ last'.calls[1] = Call("fetch_token", code)]_vars

\* C11 witness: an authenticated session has been shown its profile by a run
\* that read a code from the URL
C11_Witness ==
    /\ last.op = "main"
    /\ last.outcome = "ShowProfile"
    /\ TruthyStr(last.code)

\* C12: a failed attempt locks nothing.  After a run of main that ended in an
\* error the session is unauthenticated and no rerun is pending, so its
\* browser can arrive with another URL; and whatever happened before, an
\* unauthenticated session without a code can be shown the sign-in link, and
\* an unauthenticated session with a code the provider has not redeemed can
\* be authenticated by the next run.
C12_FailedAttemptDoesNotLock ==
    /\ (last.op = "main" /\ last.outcome = "Error") =>
          /\ ~is_authenticated[last.sess]
          /\ ~rerun[last.sess]
          /\ \A c \in QueryCodes \ {query_code[last.sess]} :
                ENABLED Request(last.sess, c)
    /\ \A s \in Sessions :
          (~ClientUnset /\ ~is_authenticated[s] /\ ~rerun[s]) =>
              /\ ~TruthyStr(query_code[s]) =>
                    ENABLED (main(s) /\ last'.outcome = "ShowLogin")
              /\ query_code[s] \in Codes \ redeemed =>
                    ENABLED (main(s) /\ last'.outcome = "Authenticated")

\* C12 witness: the exchange of a run returned and its fetch failed, and the
\* session is free to go on
C12_Witness ==
    /\ last.op = "main"
    /\ last.outcome = "Error"
    /\ last.exchange = "returned"
    /\ ~rerun[last.sess]
    /\ ~is_authenticated[last.sess]

\* C14: after sign_out on a session that was shown its profile, the session
\* is unauthenticated and the run of main that follows in that session shows
\* the sign-in link and does not call the token exchange.
C14_SignOutLeadsToShowLogin ==
    [][(/\ last.op = "sign_out"
        /\ last.was_authenticated
        /\ ~ClientUnset
        /\ last'.op = "main"
        /\ last'.sess = last.sess) =>
          /\ ~is_authenticated[last.sess]
          /\ last'.outcome = "ShowLogin"
          /\ "fetch_token" \notin CalledFns(last')]_vars

\* C15: sessions are isolated.  A run of main or a sign_out for one session
\* leaves user_info, is_authenticated and credentials of every other session
\* as they were (a request changes no session at all), and two signed-in
\* sessions never hold the same credentials, so the profile a session shows
\* is the one its own run stored.
C15_SessionsAreIsolated ==
    [][/\ \A t \in Sessions :
             (last'.op \in {"main", "sign_out"} /\ last'.sess # t) =>
                 SessionOf(t)' = SessionOf(t)
       /\ last'.op = "request" => session_state' = session_state
       /\ \A s, t \in Sessions :
             (s # t /\ is_authenticated'[s] /\ is_authenticated'[t]) =>
                 /\ credentials'[s].token # credentials'[t].token
                 /\ user_info'[s] \in Profiles(credentials'[s].token)
                 /\ user_info'[s] \notin Profiles(credentials'[t].token)]_vars

\* a session signs in while another one is signed in
C15_Witness ==
    /\ last.op = "main"
    /\ last.outcome = "Authenticated"
    /\ \E t \in Sessions \ {last.sess} :
          /\ is_authenticated[t]
          /\ user_info[t] # user_info[last.sess]

\* the number of calls of fn a step made
CallCount(step, fn) ==
    Cardinality({i \in DOMAIN step.calls : step.calls[i].fn = fn})

\* C16: within one run of main the provider calls are ordered and never
\* repeated: the token exchange is called at most once; the userinfo endpoint
\* is called at most once and only after the exchange returned, with the token
\* it returned; the session is written only by a run in which both succeeded;
\* a failure of either call ends the run with an error message, with no
\* second call and no rerun of the script.
C16_CallsOrderedOnceNoRetry ==
    [][\A s \in Sessions : (last'.op = "main" /\ last'.sess = s) =>
          LET failed == \/ last'.exchange = "raised"
                        \/ /\ last'.exchange = "returned"
                           /\ ~FetchReturnedObject(last'.response)
          IN
          /\ CallCount(last', "fetch_token") <= 1
          /\ CallCount(last', "userinfo") <= 1
          /\ CallCount(last', "userinfo") = 1 =>
                /\ last'.exchange = "returned"
                /\ last'.calls = <<Call("fetch_token", last'.code),
                                   Call("userinfo", TokenOf(last'.code))>>
          /\ last'.exchange = "raised" =>
                last'.calls = <<Call("fetch_token", last'.code)>>
          /\ SessionOf(s)' # SessionOf(s) =>
                /\ last'.exchange = "returned"
                /\ FetchReturnedObject(last'.response)
                /\ Len(last'.calls) = 2
          /\ failed =>
                /\ last'.outcome = "Error"
                /\ last'.error # ""
                /\ ~rerun'[s]
                /\ SessionOf(s)' = SessionOf(s)]_vars

\* the exchange returned and the userinfo endpoint could not be reached
C16_Witness ==
    /\ last.op = "main"
    /\ last.exchange = "returned"
    /\ last.response = NoConnection
    /\ last.outcome = "Error"
    /\ Len(last.calls) = 2

\* C17: a run of main for a session that is not signed in and whose URL has
\* no code only builds the authorization URL: it calls neither the token
\* exchange nor the userinfo endpoint and leaves user_info, is_authenticated,
\* credentials, the URL and the provider as they were, at every such run.
C17_ShowLoginChangesNothing ==
    [][\A s \in Sessions :
          (/\ last'.op = "main"
           /\ last'.sess = s
           /\ ~is_authenticated[s]
           /\ query_code[s] \in {NoStr, ""}) =>
              /\ CalledFns(last') \cap {"fetch_token", "userinfo"} = {}
              /\ session_state' = session_state
              /\ query_code' = query_code
              /\ redeemed' = redeemed
              /\ ~rerun'[s]
              /\ ~ClientUnset =>
                    /\ last'.outcome = "ShowLogin"
                    /\ last'.calls = <<Call("authorization_url", "")>>]_vars

\* the sign-in link shown to a session that has signed out before
C17_Witness ==
    /\ last.op = "main"
    /\ last.outcome = "ShowLogin"
    /\ credentials[last.sess] = None
    /\ user_info[last.sess] = None
    /\ ~is_authenticated[last.sess]

\* C18: a 200 answer of the userinfo endpoint whose JSON body is a profile
\* without its optional fields (name, email, picture) is accepted: the run
\* completes the sign-in, and the stored profile is the body as it came, the
\* missing fields being absent from it.
C18_ProfileWithoutOptionalFieldsAccepted ==
    (/\ last.op = "main"
     /\ last.exchange = "returned"
     /\ FetchReturnedProfile(last.response)
     /\ DOMAIN last.response.json \cap {"name", "email", "picture"} = {}) =>
        /\ last.outcome = "Authenticated"
        /\ last.error = ""
        /\ is_authenticated[last.sess]
        /\ user_info[last.sess] = last.response.json
        /\ DOMAIN user_info[last.sess] = {"id"}

\* a sign-in completed with a profile that has only its id
C18_Witness ==
    /\ last.op = "main"
    /\ last.outcome = "Authenticated"
    /\ DOMAIN last.response.json = {"id"}
    /\ DOMAIN user_info[last.sess] = {"id"}

\* C19: in every reachable state, a signed-in session holds a profile and
\* credentials of one and the same sign-in: the profile is one the userinfo
\* endpoint gives for the stored access token, and the refresh token is the
\* one issued with that access token; this also holds after a sign-out and a
\* second sign-in with another code (as another user).
C19_ProfileAndCredentialsOfSameAttempt ==
    \A s \in Sessions :
        is_authenticated[s] =>
            /\ ~NoCredentials(s)
            /\ \E c \in Codes :
                  /\ credentials[s] = StoredCredentials(NewCredentials(c))
                  /\ user_info[s] \in Profiles(TokenOf(c))
                  /\ c \in redeemed
            /\ \A c \in Codes :
                  TokenOf(c) # credentials[s].token =>
                      user_info[s] \notin Profiles(TokenOf(c))

\* a session signed in with one code after every other code was redeemed,
\* while no other session has stored anything
C19_Witness ==
    /\ last.op = "main"
    /\ last.outcome = "Authenticated"
    /\ is_authenticated[last.sess]
    /\ \A t \in Sessions \ {last.sess} : credentials[t] = Absent
    /\ redeemed = Codes
    /\ credentials[last.sess].token = TokenOf(last.code)
    /\ user_info[last.sess] \in Profiles(TokenOf(last.code))

\* C20: a run of main for a signed-in session makes no outbound call and
\* leaves user_info, is_authenticated and credentials as they were, also when
\* the URL carries a code: the code is not redeemed at the provider and stays
\* in the URL.
C20_AuthenticatedRunIgnoresCode ==
    [][\A s \in Sessions :
          (/\ last'.op = "main"
           /\ last'.sess = s
           /\ ~ClientUnset
           /\ is_authenticated[s]) =>
              /\ last'.outcome = "ShowProfile"
              /\ last'.calls = <<>>
              /\ last'.code = query_code[s]
              /\ session_state' = session_state
              /\ query_code' = query_code
              /\ redeemed' = redeemed
              /\ ~rerun'[s]]_vars

\* the profile shown while the URL carries a code that was never redeemed
C20_Witness ==
    /\ last.op = "main"
    /\ last.outcome = "ShowProfile"
    /\ last.code \in Codes \ redeemed
    /\ query_code[last.sess] = last.code
    /\ is_authenticated[last.sess]

\* a run that holds the credentials the exchange returned
Exchanged(r) == run[r].credentials # None

\* a run that is at, or past, its stores to st.session_state
Storing(r) ==
    run[r].pc \in {"store user_info", "store is_authenticated",
                   "store credentials", "clear"}

====
